---- MODULE Spec2Model ----
(***************************************************************************)
(* Model of email_sender.py: the progressive campaign scheduler.           *)
(*                                                                         *)
(* System state: the wall clock (a calendar date), the file history.json,  *)
(* and the user's crontab.  One process at a time runs main(); its         *)
(* position is pc and its locals are the variables named as in main().     *)
(* Dates are the '%Y-%m-%d' strings of the program, written <<y, m, d>>.   *)
(***************************************************************************)
EXTENDS Integers, Sequences, FiniteSets, TLC

VARIABLES
    now,              \* datetime.now(), the calendar date of the wall clock
    disk,             \* the file history.json
    crontab,          \* the user's crontab (crontab -l / crontab - / crontab -r)
    pc,               \* position of the running process in main()
    args,             \* parse_arguments() of the current / last invocation
    history,          \* main's local `history`
    today,            \* main's local `today`
    day_number,       \* main's local `day_number` (0 stands for "FORCED"/unset)
    emails_to_send,   \* main's local `emails_to_send`
    i,                \* loop index of `for i, recipient in enumerate(..., 1)`
    successful_sends, \* main's local `successful_sends`
    outcome,          \* how the last invocation ended ("running" while it runs)
    inv,              \* what the current invocation found and did
    saved,            \* the current invocation's save_history: file before, record written
    lost,             \* today's scheduled runs killed before their save: date, successes
    seenStart,        \* the first start_date history.json ever held
    runs,             \* number of invocations of the script started
    kills,            \* number of invocations terminated from outside
    selected,         \* main's local `selected_recipients`, as positions in receive_data;
                      \* emptied when the loop, its only reader, has taken the last item
    trace,            \* the send_email calls and time.sleep pauses of the loop, up to
                      \* the step after the loop
    fired,            \* the cron daemon has started today's run (SpecCron only)
    quotaRuns         \* cron-started runs that reached get_current_day_info (SpecCron only)

vars == <<now, disk, crontab, pc, args, history, today, day_number,
          emails_to_send, i, successful_sends, outcome, inv, saved, lost,
          seenStart, runs, kills, selected, trace, fired, quotaRuns>>

----------------------------------------------------------------------------
(* Bounds of the model *)

MaxDay == 5          \* the clock advances at most MaxDay days past FirstDate
MaxRecipients == 2   \* len(receive_data) ranges over 0..MaxRecipients
MaxForce == 1        \* --force-send N ranges over -1..MaxForce
MaxRuns == 3         \* at most MaxRuns invocations of the script are started
MaxKills == 1        \* at most MaxKills invocations are terminated from outside

(* Program constants *)

CampaignDays == 5    \* `if days_passed > 5`

----------------------------------------------------------------------------
(* Calendar: datetime.strptime / strftime('%Y-%m-%d') and date subtraction *)

None == <<>>                     \* Python None (JSON null)
NotADate == <<0, 0, 0>>          \* a string that strptime rejects
FirstDate == <<2024, 2, 26>>     \* the clock at the start of the model

IsLeap(y) == (y % 4 = 0 /\ y % 100 # 0) \/ y % 400 = 0

DaysInMonth(y, m) ==
    IF m = 2 THEN (IF IsLeap(y) THEN 29 ELSE 28)
    ELSE IF m \in {4, 6, 9, 11} THEN 30 ELSE 31

\* datetime.strptime(s, '%Y-%m-%d') succeeds
IsDate(s) ==
    /\ Len(s) = 3
    /\ s[1] >= 1
    /\ s[2] \in 1..12
    /\ s[3] >= 1 /\ s[3] <= DaysInMonth(s[1], s[2])

RECURSIVE DaysBeforeMonth(_, _)
DaysBeforeMonth(y, m) ==
    IF m = 1 THEN 0 ELSE DaysBeforeMonth(y, m - 1) + DaysInMonth(y, m - 1)

\* date.toordinal(): the proleptic Gregorian ordinal
ToOrdinal(s) ==
    LET y == s[1] - 1
    IN  y * 365 + (y \div 4) - (y \div 100) + (y \div 400)
          + DaysBeforeMonth(s[1], s[2]) + s[3]

\* (current_date - start_date).days
DaysDiff(current_date, start_date) == ToOrdinal(current_date) - ToOrdinal(start_date)

\* the calendar day after d (the clock passing midnight)
NextDay(d) ==
    IF d[3] < DaysInMonth(d[1], d[2]) THEN <<d[1], d[2], d[3] + 1>>
    ELSE IF d[2] < 12 THEN <<d[1], d[2] + 1, 1>>
    ELSE <<d[1] + 1, 1, 1>>

----------------------------------------------------------------------------
(* history.json and its parsed value *)

EmptyMap == [d \in {} |-> 0]

\* a parsed JSON value: a dict with the given keys, or something that is not a dict
Obj(keys, start, sends) ==
    [shape |-> "object", keys |-> keys, start_date |-> start, daily_sends |-> sends]

NotObject == [shape |-> "notobject", keys |-> {}, start_date |-> None, daily_sends |-> EmptyMap]

\* {"start_date": None, "daily_sends": {}}
Fresh == Obj({"start_date", "daily_sends"}, None, EmptyMap)

\* the file: missing, holding text that is not JSON (empty / partial), or holding JSON
File(kind, val) == [kind |-> kind, val |-> val]
Missing == File("missing", Fresh)
Empty == File("empty", Fresh)
Partial == File("partial", Fresh)
Json(val) == File("json", val)

\* dict.get(key, 0)
Get(m, key) == IF key \in DOMAIN m THEN m[key] ELSE 0

load_history(f) ==
    IF f.kind = "json" THEN f.val ELSE Fresh

----------------------------------------------------------------------------
(* The crontab: a list of lines, or no crontab at all (crontab -l fails).   *)
(* A line is our cron_command ("job"), another line that contains the      *)
(* script path ("mention"), an unrelated entry ("other") or a blank line.  *)

Tab(lines) == [exists |-> TRUE, lines |-> lines]
NoCrontab == [exists |-> FALSE, lines |-> <<>>]

\* str(script_path) in line
ContainsPath(line) == line \in {"job", "mention"}

\* line.strip() is empty
IsBlank(line) == line = "blank"

RECURSIVE RStrip(_)
\* current_cron.rstrip(): trailing blank lines go
RStrip(lines) ==
    IF lines # <<>> /\ IsBlank(lines[Len(lines)])
    THEN RStrip(SubSeq(lines, 1, Len(lines) - 1))
    ELSE lines

\* new_lines of remove_crontab: lines without the script path and not blank
NewLines(lines) == SelectSeq(lines, LAMBDA l : ~ContainsPath(l) /\ ~IsBlank(l))

setup_crontab(cron) ==
    LET current_cron == IF cron.exists THEN cron.lines ELSE <<>>
    IN  IF \E n \in 1..Len(current_cron) : ContainsPath(current_cron[n])
        THEN cron
        ELSE IF current_cron = <<>> THEN Tab(<<"job">>)
        ELSE IF RStrip(current_cron) = <<>> THEN Tab(<<"blank", "job">>)
        ELSE Tab(Append(RStrip(current_cron), "job"))

remove_crontab(cron) ==
    IF ~cron.exists THEN cron
    ELSE LET removed == \E n \in 1..Len(cron.lines) : ContainsPath(cron.lines[n])
             new_lines == NewLines(cron.lines)
         IN  IF ~removed THEN cron
             ELSE IF new_lines # <<>> THEN Tab(new_lines)
             ELSE NoCrontab

\* check_and_cleanup_crontab with `days_passed >= 5` for `days_passed > 5`
check_and_cleanup_crontab_ge(h, current_date, cron) ==
    IF h.shape # "object" \/ "start_date" \notin h.keys
    THEN [err |-> TRUE, removed |-> FALSE, cron |-> cron]
    ELSE IF h.start_date = None
    THEN [err |-> FALSE, removed |-> FALSE, cron |-> cron]
    ELSE IF ~IsDate(h.start_date)
    THEN [err |-> TRUE, removed |-> FALSE, cron |-> cron]
    ELSE LET days_passed == DaysDiff(current_date, h.start_date) + 1
         IN  IF days_passed >= CampaignDays
             THEN [err |-> FALSE, removed |-> TRUE, cron |-> remove_crontab(cron)]
             ELSE [err |-> FALSE, removed |-> FALSE, cron |-> cron]

\* check_and_cleanup_crontab with days_passed lacking its `+ 1`
check_and_cleanup_crontab_elapsed(h, current_date, cron) ==
    IF h.shape # "object" \/ "start_date" \notin h.keys
    THEN [err |-> TRUE, removed |-> FALSE, cron |-> cron]
    ELSE IF h.start_date = None
    THEN [err |-> FALSE, removed |-> FALSE, cron |-> cron]
    ELSE IF ~IsDate(h.start_date)
    THEN [err |-> TRUE, removed |-> FALSE, cron |-> cron]
    ELSE LET days_passed == DaysDiff(current_date, h.start_date)
         IN  IF days_passed > CampaignDays
             THEN [err |-> FALSE, removed |-> TRUE, cron |-> remove_crontab(cron)]
             ELSE [err |-> FALSE, removed |-> FALSE, cron |-> cron]

\* check_and_cleanup_crontab as a value: err = an uncaught exception was raised,
\* removed = remove_crontab() was called, cron = the crontab afterwards
check_and_cleanup_crontab(h, current_date, cron) ==
    IF h.shape # "object" \/ "start_date" \notin h.keys
    THEN [err |-> TRUE, removed |-> FALSE, cron |-> cron]
    ELSE IF h.start_date = None
    THEN [err |-> FALSE, removed |-> FALSE, cron |-> cron]
    ELSE IF ~IsDate(h.start_date)
    THEN [err |-> TRUE, removed |-> FALSE, cron |-> cron]
    ELSE LET days_passed == DaysDiff(current_date, h.start_date) + 1
         IN  IF days_passed > CampaignDays
             THEN [err |-> FALSE, removed |-> TRUE, cron |-> remove_crontab(cron)]
             ELSE [err |-> FALSE, removed |-> FALSE, cron |-> cron]

----------------------------------------------------------------------------
(* Quota *)

Max(a, b) == IF a >= b THEN a ELSE b
Min(a, b) == IF a <= b THEN a ELSE b

\* get_current_day_info with day_number lacking its `+ 1`
get_current_day_info_elapsed(h, d) ==
    LET h1 == IF h.start_date = None THEN [h EXCEPT !.start_date = d] ELSE h
        dn == IF h.start_date = None THEN 1 ELSE DaysDiff(d, h.start_date)
    IN  IF "daily_sends" \notin h.keys
        THEN [err |-> TRUE, history |-> h1, day_number |-> dn, emails_to_send |-> 0,
              today |-> d]
        ELSE [err |-> FALSE, history |-> h1, day_number |-> dn,
              emails_to_send |-> Max(0, dn - Get(h.daily_sends, d)), today |-> d]

\* get_current_day_info that forgets what was already sent today
get_current_day_info_nomakeup(h, d) ==
    LET h1 == IF h.start_date = None THEN [h EXCEPT !.start_date = d] ELSE h
        dn == IF h.start_date = None THEN 1 ELSE DaysDiff(d, h.start_date) + 1
    IN  IF "daily_sends" \notin h.keys
        THEN [err |-> TRUE, history |-> h1, day_number |-> dn, emails_to_send |-> 0,
              today |-> d]
        ELSE [err |-> FALSE, history |-> h1, day_number |-> dn,
              emails_to_send |-> Max(0, dn), today |-> d]

\* get_current_day_info as a value; h has passed check_and_cleanup_crontab, so it
\* is a dict with a start_date that is None or a date.  err = KeyError raised.
get_current_day_info(h, d) ==
    LET h1 == IF h.start_date = None THEN [h EXCEPT !.start_date = d] ELSE h
        dn == IF h.start_date = None THEN 1 ELSE DaysDiff(d, h.start_date) + 1
    IN  IF "daily_sends" \notin h.keys
        THEN [err |-> TRUE, history |-> h1, day_number |-> dn, emails_to_send |-> 0,
              today |-> d]
        ELSE [err |-> FALSE, history |-> h1, day_number |-> dn,
              emails_to_send |-> Max(0, dn - Get(h.daily_sends, d)), today |-> d]

\* update_history that adds to an entry of date but never creates one
update_history_existing(h, date, count) ==
    [h EXCEPT !.daily_sends =
        [k \in DOMAIN h.daily_sends |-> h.daily_sends[k] + (IF k = date THEN count ELSE 0)]]

\* update_history with `= count` for `= ...get(date, 0) + count`
update_history_set(h, date, count) ==
    [h EXCEPT !.daily_sends =
        [k \in DOMAIN h.daily_sends \cup {date} |-> IF k = date THEN count ELSE h.daily_sends[k]]]

\* update_history's assignment: daily_sends[date] = daily_sends.get(date, 0) + count
update_history(h, date, count) ==
    [h EXCEPT !.daily_sends =
        [k \in DOMAIN h.daily_sends \cup {date} |-> Get(h.daily_sends, k) + (IF k = date THEN count ELSE 0)]]

\* `if args.force_send:` -- the option was given and its value is not 0
ForceSend(a) == a.forced /\ a.force_send # 0

----------------------------------------------------------------------------
(* Command line *)

Args(setup_cron, remove_cron, status, forced, n) ==
    [setup_cron |-> setup_cron, remove_cron |-> remove_cron, status |-> status,
     forced |-> forced, force_send |-> n]

DefaultArgs == Args(FALSE, FALSE, FALSE, FALSE, 0)
ForceCounts == (0 - 1)..MaxForce
RunArgs == {DefaultArgs} \cup {Args(FALSE, FALSE, FALSE, TRUE, n) : n \in ForceCounts}

\* the invocation is a run: none of --setup-cron, --remove-cron, --status
IsRun(a) == ~a.setup_cron /\ ~a.remove_cron /\ ~a.status

\* the start_date a reader finds in the file (None when there is none to find)
DiskStart(f) ==
    IF f.kind = "json" /\ f.val.shape = "object" /\ "start_date" \in f.val.keys
    THEN f.val.start_date ELSE None

NoInv ==
    [diskAtStart |-> Missing, cronAtStart |-> NoCrontab, nowAtStart |-> None,
     checked |-> FALSE, removed |-> FALSE, computed |-> FALSE, quota |-> 0,
     pool |-> 0]

BeginInv == [NoInv EXCEPT !.diskAtStart = disk, !.cronAtStart = crontab, !.nowAtStart = now]

NoSave == [started |-> FALSE, old |-> Missing, new |-> Missing]

NoneLost == [date |-> None, m |-> 0]

----------------------------------------------------------------------------
(* Initial states: no process, the clock at FirstDate, a history.json that  *)
(* is missing or was left malformed, a crontab with or without other lines.*)
(* (A history.json that is not JSON at all arises from a killed save.)     *)

InitDisks ==
    { Missing, Json(NotObject),
      Json(Obj({"daily_sends"}, None, EmptyMap)),
      Json(Obj({"start_date"}, None, EmptyMap)),
      Json(Obj({"start_date", "daily_sends"}, NotADate, EmptyMap)) }

InitCrontabs == { NoCrontab, Tab(<<"other", "blank">>), Tab(<<"mention">>) }

NoProcess ==
    /\ pc = "idle"
    /\ args = DefaultArgs
    /\ history = Fresh
    /\ today = None
    /\ day_number = 0
    /\ emails_to_send = 0
    /\ i = 0
    /\ successful_sends = 0
    /\ outcome = "none"
    /\ inv = NoInv
    /\ saved = NoSave
    /\ selected = <<>>
    /\ trace = <<>>

Init ==
    /\ now = FirstDate
    /\ disk \in InitDisks
    /\ crontab \in InitCrontabs
    /\ NoProcess
    /\ lost = NoneLost
    /\ seenStart = DiskStart(disk)
    /\ runs = 0
    /\ kills = 0
    /\ fired = FALSE
    /\ quotaRuns = 0

----------------------------------------------------------------------------
(* The clock.  An invocation reads the date when it starts (lines 141, 37); *)
(* the date changes between invocations, and a new day has no killed runs. *)

Midnight ==
    /\ pc = "idle"
    /\ DaysDiff(now, FirstDate) < MaxDay
    /\ now' = NextDay(now)
    /\ lost' = NoneLost
    /\ UNCHANGED <<disk, crontab, pc, args, history, today, day_number,
                   emails_to_send, i, successful_sends, outcome, inv, saved,
                   seenStart, runs, kills, selected, trace>>

Tick ==
    /\ Midnight
    /\ UNCHANGED <<fired, quotaRuns>>

----------------------------------------------------------------------------
(* main(): the invocations that return before the datasets are read *)

ResetLocals ==
    /\ today' = None
    /\ day_number' = 0
    /\ emails_to_send' = 0
    /\ i' = 0
    /\ successful_sends' = 0
    /\ selected' = <<>>
    /\ trace' = <<>>

\* --setup-cron
SetupCron ==
    /\ pc = "idle"
    /\ runs < MaxRuns
    /\ runs' = runs + 1
    /\ args' = Args(TRUE, FALSE, FALSE, FALSE, 0)
    /\ crontab' = setup_crontab(crontab)
    /\ history' = Fresh
    /\ ResetLocals
    /\ pc' = "done"
    /\ outcome' = "exit0"
    /\ inv' = BeginInv
    /\ UNCHANGED <<now, disk, saved, lost, seenStart, kills, fired, quotaRuns>>

\* --remove-cron
RemoveCron ==
    /\ pc = "idle"
    /\ runs < MaxRuns
    /\ runs' = runs + 1
    /\ args' = Args(FALSE, TRUE, FALSE, FALSE, 0)
    /\ crontab' = remove_crontab(crontab)
    /\ history' = Fresh
    /\ ResetLocals
    /\ pc' = "done"
    /\ outcome' = "exit0"
    /\ inv' = BeginInv
    /\ UNCHANGED <<now, disk, saved, lost, seenStart, kills, fired, quotaRuns>>

\* the status branch raises: history["start_date"] on a non-dict or without the
\* key, strptime on a non-date, history["daily_sends"] without the key
StatusRaises(h) ==
    \/ h.shape # "object"
    \/ "start_date" \notin h.keys
    \/ h.start_date # None /\ ~IsDate(h.start_date)
    \/ h.start_date # None /\ "daily_sends" \notin h.keys

\* --status
Status ==
    /\ pc = "idle"
    /\ runs < MaxRuns
    /\ runs' = runs + 1
    /\ args' = Args(FALSE, FALSE, TRUE, FALSE, 0)
    /\ history' = load_history(disk)
    /\ ResetLocals
    /\ pc' = "done"
    /\ outcome' = IF StatusRaises(load_history(disk)) THEN "crash" ELSE "exit0"
    /\ inv' = BeginInv
    /\ UNCHANGED <<now, disk, crontab, saved, lost, seenStart, kills, fired, quotaRuns>>

----------------------------------------------------------------------------
(* main(): a scheduled or forced run, up to the start of the send loop.     *)
(* a = the arguments; nr = len(receive_data), 0 standing for every dataset *)
(* failure of lines 274-306 (a list missing, malformed or empty, no swaks).*)

\* lines 271-325 without the mutant's dataset checks
Stage_unchecked(cerr, nr, forced, gerr, requested) ==
    IF cerr THEN "crash"
    ELSE IF ~forced /\ gerr THEN "crash"
    ELSE IF requested <= 0 THEN "exit0"
    ELSE "loop"

\* how far main gets: an uncaught exception, sys.exit(1) on the datasets, the
\* return of line 325, or the send loop
Stage(cerr, nr, forced, gerr, requested) ==
    IF cerr THEN "crash"
    ELSE IF nr = 0 THEN "exit1"
    ELSE IF ~forced /\ gerr THEN "crash"
    ELSE IF requested <= 0 THEN "exit0"
    ELSE "loop"

\* random.choices(range(nr), k): positions drawn with replacement
Sample_repeat(nr, k) == [1..k -> 1..nr]

\* random.sample(receive_data, k): k distinct positions of the list, in any order
Sample(nr, k) == {q \in [1..k -> 1..nr] : \A m, n \in 1..k : q[m] = q[n] => m = n}

RunBody(a, nr) ==
    /\ pc = "idle"
    /\ LET h == load_history(disk)
           c == check_and_cleanup_crontab(h, now, crontab)
           g == get_current_day_info(h, now)
           forced == ForceSend(a)
           planned == ~c.err /\ nr > 0              \* line 313 is reached
           computed == planned /\ ~forced /\ ~g.err \* get_current_day_info returned
           requested == IF forced THEN a.force_send ELSE g.emails_to_send
           stage == Stage(c.err, nr, forced, g.err, requested)
       IN  /\ args' = a
           /\ crontab' = c.cron
           /\ history' = IF planned /\ ~forced THEN g.history ELSE h
           /\ today' = IF planned /\ (forced \/ ~g.err) THEN now ELSE None
           /\ day_number' = IF computed THEN g.day_number ELSE 0
           /\ emails_to_send' = IF stage = "loop" THEN Min(requested, nr)
                                ELSE IF stage = "exit0" THEN requested ELSE 0
           /\ i' = IF stage = "loop" THEN 1 ELSE 0
           /\ successful_sends' = 0
           /\ selected' \in (IF stage = "loop" THEN Sample(nr, Min(requested, nr))
                              ELSE {<<>>})
           /\ trace' = <<>>
           /\ pc' = IF stage = "loop" THEN "loop" ELSE "done"
           /\ outcome' = IF stage = "loop" THEN "running" ELSE stage
           /\ inv' = [BeginInv EXCEPT
                        !.checked = ~c.err,
                        !.removed = c.removed,
                        !.computed = computed,
                        !.quota = IF computed THEN g.emails_to_send ELSE 0,
                        !.pool = nr]
    /\ UNCHANGED <<now, disk, saved, lost, seenStart, kills>>

Run(a, nr) ==
    /\ runs < MaxRuns
    /\ runs' = runs + 1
    /\ RunBody(a, nr)
    /\ UNCHANGED <<fired, quotaRuns>>

\* One pass of the loop over selected_recipients.  result: the recipient entry
\* has no address, the chosen credentials lack email or password, or send_email
\* returned True / False.
SendResults == {"invalid_recipient", "invalid_credentials", "sent", "failed"}

\* the `continue` of lines 351 and 365 skips send_email and the pause alike
Skipped(result) == result \in {"invalid_recipient", "invalid_credentials"}

SendStep(result) ==
    /\ pc = "loop"
    /\ successful_sends' = IF result = "sent" THEN successful_sends + 1 ELSE successful_sends
    /\ trace' = IF Skipped(result) THEN trace
                 ELSE IF i < emails_to_send THEN trace \o <<"send", "pause">>
                 ELSE Append(trace, "send")
    /\ i' = i + 1
    /\ pc' = IF i < emails_to_send THEN "loop" ELSE "update"
    /\ selected' = IF i < emails_to_send THEN selected ELSE <<>>
    /\ UNCHANGED <<now, disk, crontab, args, history, today, day_number,
                   emails_to_send, outcome, inv, saved, lost, seenStart, runs, kills,
                   fired, quotaRuns>>

\* Lines 378-380 and the open() of save_history, which truncates the file.
\* Without a save the run prints its summary and returns.
Update ==
    /\ pc = "update"
    /\ IF ~ForceSend(args) /\ successful_sends > 0
       THEN /\ history' = update_history(history, today, successful_sends)
            /\ disk' = Empty
            /\ saved' = [started |-> TRUE, old |-> disk, new |-> Json(history')]
            /\ pc' = "write"
            /\ UNCHANGED outcome
       ELSE /\ pc' = "done"
            /\ outcome' = "exit0"
            /\ UNCHANGED <<history, disk, saved>>
    /\ trace' = <<>>
    /\ UNCHANGED <<now, crontab, args, today, day_number, emails_to_send, i,
                   successful_sends, inv, lost, seenStart, runs, kills,
                   selected, fired, quotaRuns>>

\* json.dump and the close of the file; then the summary and the return
Write ==
    /\ pc = "write"
    /\ disk' = Json(history)
    /\ seenStart' = IF seenStart = None THEN DiskStart(disk') ELSE seenStart
    /\ pc' = "done"
    /\ outcome' = "exit0"
    /\ UNCHANGED <<now, crontab, args, history, today, day_number, emails_to_send,
                   i, successful_sends, inv, saved, lost, runs, kills,
                   selected, trace, fired, quotaRuns>>

\* The process is terminated from outside.  In the middle of save_history the
\* file keeps what reached it: nothing (the buffer is lost) or a prefix of the
\* record (the buffer is flushed while the exception unwinds).
Kill ==
    /\ pc \in {"loop", "update", "write"}
    /\ kills < MaxKills
    /\ kills' = kills + 1
    /\ pc' = "done"
    /\ outcome' = "killed"
    /\ IF pc = "write" THEN disk' \in {Empty, Partial} ELSE disk' = disk
    /\ lost' = IF ForceSend(args) THEN lost
               ELSE [date |-> today,
                     m |-> successful_sends + (IF lost.date = today THEN lost.m ELSE 0)]
    /\ selected' = <<>>
    /\ trace' = <<>>
    /\ UNCHANGED <<now, crontab, args, history, today, day_number, emails_to_send,
                   i, successful_sends, inv, saved, seenStart, runs,
                   fired, quotaRuns>>

\* The process is gone: its locals with it
Exit ==
    /\ pc = "done"
    /\ pc' = "idle"
    /\ args' = DefaultArgs
    /\ history' = Fresh
    /\ ResetLocals
    /\ outcome' = "none"
    /\ inv' = NoInv
    /\ saved' = NoSave
    /\ UNCHANGED <<now, disk, crontab, lost, seenStart, runs, kills, fired, quotaRuns>>

Next ==
    \/ Tick
    \/ SetupCron
    \/ RemoveCron
    \/ Status
    \/ \E a \in RunArgs, nr \in 0..MaxRecipients : Run(a, nr)
    \/ \E result \in SendResults : SendStep(result)
    \/ Update
    \/ Write
    \/ Kill
    \/ Exit

Spec == Init /\ [][Next]_vars

----------------------------------------------------------------------------
(* The installed trigger at work: the operator installs the crontab entry   *)
(* on the first day and leaves; from then on the cron daemon starts one    *)
(* scheduled run on every day on which the entry `0 10 * * *` is present.  *)

HasJob(cron) == \E n \in 1..Len(cron.lines) : cron.lines[n] = "job"

CronInstall ==
    /\ now = FirstDate
    /\ ~fired
    /\ SetupCron

CronFire(nr) ==
    /\ HasJob(crontab)
    /\ ~fired
    /\ fired' = TRUE
    /\ RunBody(DefaultArgs, nr)
    /\ quotaRuns' = IF inv'.computed THEN quotaRuns + 1 ELSE quotaRuns
    /\ UNCHANGED runs

CronMidnight ==
    /\ fired \/ ~HasJob(crontab)
    /\ Midnight
    /\ fired' = FALSE
    /\ UNCHANGED quotaRuns

NextCron ==
    \/ CronInstall
    \/ \E nr \in 0..MaxRecipients : CronFire(nr)
    \/ CronMidnight
    \/ \E result \in SendResults : SendStep(result)
    \/ Update
    \/ Write
    \/ Exit

SpecCron == Init /\ [][NextCron]_vars

\* C19: with the trigger installed and fired once a day, the registration is
\* removed in the end -- here even only: it is gone once six of the daily runs
\* have reached the quota computation, whatever their sends did.
C19_TriggerRemovedAfterCampaign ==
    (pc = "idle" /\ fired /\ quotaRuns > CampaignDays) => ~HasJob(crontab)

----------------------------------------------------------------------------
(* Properties *)

RECURSIVE CountDays(_, _, _)
\* the k with b = a + k days, counted on the calendar (n days counted so far)
CountDays(a, b, n) ==
    IF a = b THEN n
    ELSE IF n > MaxDay + 1 THEN 0 - 1
    ELSE CountDays(NextDay(a), b, n + 1)

\* the state the invocation loaded, and what it held
Loaded == load_history(inv.diskAtStart)
LoadedStart == Loaded.start_date
LoadedSentToday == Get(Loaded.daily_sends, today)

\* a process is running or has just ended, and it is a scheduled / forced run
InRun == pc # "idle" /\ IsRun(args)

\* the stored campaign is past its fifth day when the invocation starts
PastCampaign ==
    /\ DiskStart(inv.diskAtStart) # None
    /\ IsDate(DiskStart(inv.diskAtStart))
    /\ CountDays(DiskStart(inv.diskAtStart), inv.nowAtStart, 0) + 1 > CampaignDays

HasPathLine(cron) == \E n \in 1..Len(cron.lines) : ContainsPath(cron.lines[n])

\* C1: whenever get_current_day_info has returned, with today = start_date + k
\* days it returned day_number = k + 1 (1 when start_date was absent) and
\* quota_remaining = max(0, day_number - m), m the count stored for today.
C1_DayNumberAndQuota ==
    inv.computed =>
        /\ day_number = IF LoadedStart = None THEN 1
                        ELSE CountDays(LoadedStart, today, 0) + 1
        /\ inv.quota = Max(0, day_number - LoadedSentToday)

C1_Witness ==
    /\ inv.computed
    /\ LoadedStart # None
    /\ day_number >= 2
    /\ LoadedSentToday >= 1
    /\ inv.quota >= 1

\* C2: a scheduled run that reached the quota computation with an absent
\* start_date and has returned leaves start_date = today in history.json,
\* whatever the number of successful sends.
C2_StartDatePersisted ==
    (/\ pc = "done"
     /\ outcome = "exit0"
     /\ IsRun(args) /\ ~args.forced
     /\ inv.computed
     /\ LoadedStart = None)
        => DiskStart(disk) = today

\* C3: a scheduled run whose day_number is greater than 5 sends nothing.
C3_NothingSentAfterDayFive ==
    (InRun /\ ~args.forced /\ successful_sends > 0) => day_number <= CampaignDays

\* C4: in a run, remove_crontab is called exactly when the loaded state has a
\* start_date with (today - start_date).days + 1 > 5; then no line of the
\* crontab holds the script path any more, otherwise the crontab is as it was.
C4_DeactivateExactlyAfterFive ==
    InRun =>
        /\ inv.removed <=> PastCampaign
        /\ IF PastCampaign THEN ~HasPathLine(crontab) ELSE crontab = inv.cronAtStart

C4_Witness ==
    /\ InRun /\ ~args.forced
    /\ inv.removed
    /\ \E n \in 1..Len(inv.cronAtStart.lines) : inv.cronAtStart.lines[n] = "job"
    /\ LoadedStart # None
    /\ CountDays(LoadedStart, inv.nowAtStart, 0) = CampaignDays

\* C5: when scheduled runs of today were killed after m successful sends, the
\* successful sends of a later scheduled run of today and those m together do
\* not exceed the day number.
C5_KilledRunIsMadeUp ==
    (/\ InRun /\ ~args.forced
     /\ inv.computed
     /\ outcome # "killed"
     /\ lost.date = today)
        => lost.m + successful_sends <= day_number

\* C6: a --force-send N invocation, for every N, sends min(N, pool) items and
\* leaves history.json as it found it.
C6_ForcedLeavesState ==
    (InRun /\ args.forced) =>
        /\ disk = inv.diskAtStart
        /\ pc = "loop" => emails_to_send = Min(args.force_send, inv.pool)

\* C7 as stated: a forced-send invocation (here even only one with N # 0, which
\* the program treats as forced) leaves the crontab as it found it.
C7_ForcedNeverRemoves ==
    (InRun /\ args.forced /\ args.force_send # 0) => crontab = inv.cronAtStart

\* C7 as amended: check_and_cleanup_crontab runs in forced mode too; a
\* forced-send invocation removes the registration exactly when the stored
\* campaign is past day 5 and leaves the crontab unchanged otherwise.
C7_ForcedDeactivatesAfterFive ==
    (InRun /\ args.forced /\ args.force_send # 0) =>
        /\ inv.removed <=> PastCampaign
        /\ PastCampaign => ~HasPathLine(crontab)
        /\ ~PastCampaign => crontab = inv.cronAtStart

C7_Witness ==
    /\ InRun /\ args.forced /\ args.force_send # 0
    /\ inv.removed
    /\ HasPathLine(inv.cronAtStart)
    /\ ~HasPathLine(crontab)

\* the file does not hold a well-formed record
BadRecord(f) ==
    \/ f.kind \in {"empty", "partial"}
    \/ /\ f.kind = "json"
       /\ \/ f.val.shape # "object"
          \/ f.val.keys # {"start_date", "daily_sends"}
          \/ f.val.start_date # None /\ ~IsDate(f.val.start_date)

\* C8: a run that finds an unreadable or malformed history.json does not end
\* in an uncaught exception.
C8_BadRecordNeverFatal ==
    (pc = "done" /\ IsRun(args) /\ BadRecord(inv.diskAtStart)) => outcome # "crash"

\* C9: from the start of a save on, history.json holds the complete old
\* record or the complete new one.
C9_SaveIsAtomic ==
    saved.started => disk \in {saved.old, saved.new}

\* C10: every start_date found in history.json is the first one it ever held.
C10_StartDateNeverChanges ==
    (seenStart # None /\ DiskStart(disk) # None) => DiskStart(disk) = seenStart


\* the campaign state a reader finds in history.json
Durable == load_history(disk)

\* C11: in the campaign state held by history.json (as far as the file is a
\* well-formed record or none), start_date is absent exactly when daily_sends
\* is empty.
C11_StartAbsentIffNoSends ==
    ~BadRecord(disk) => (Durable.start_date = None <=> DOMAIN Durable.daily_sends = {})

C11_Witness ==
    /\ disk.kind = "json"
    /\ ~BadRecord(disk)
    /\ Durable.start_date # None
    /\ DOMAIN Durable.daily_sends # {}

\* C12: when an invocation has ended, no date's count in history.json is
\* below the count the invocation found.
C12_CountsNeverDecrease ==
    pc = "done" =>
        \A d \in DOMAIN Loaded.daily_sends :
            Get(Durable.daily_sends, d) >= Loaded.daily_sends[d]

C20_CountAtMostDayNumber ==
    (disk.kind = "json" /\ ~BadRecord(disk)) =>
        \A d \in DOMAIN Durable.daily_sends :
            Durable.daily_sends[d] <= CountDays(Durable.start_date, d, 0) + 1

C20_Witness ==
    /\ disk.kind = "json" /\ ~BadRecord(disk)
    /\ \E d \in DOMAIN Durable.daily_sends :
           /\ Durable.daily_sends[d] >= 2
           /\ Durable.daily_sends[d] = CountDays(Durable.start_date, d, 0) + 1


\* the registrations of a crontab: its lines that are not blank
Registrations(cron) == SelectSeq(cron.lines, LAMBDA l : ~IsBlank(l))

NumJobs(cron) == Cardinality({n \in 1..Len(cron.lines) : cron.lines[n] = "job"})

\* C14: after --setup-cron the crontab holds exactly one registration of the
\* command, and it is unchanged when the command was registered already; a
\* line that is not the command does not count as the registration.
C14_InstallIdempotent ==
    (pc = "done" /\ args.setup_cron) =>
        /\ NumJobs(crontab) = 1
        /\ HasJob(inv.cronAtStart) => crontab = inv.cronAtStart

\* C15: after --remove-cron the registrations are the previous ones without
\* the registrations of the command, no crontab is left when no registration
\* remains, and a second removal changes nothing.
C15_RemoveOnlyTheCommand ==
    (pc = "done" /\ args.remove_cron) =>
        /\ Registrations(crontab) =
               SelectSeq(Registrations(inv.cronAtStart), LAMBDA l : l # "job")
        /\ (crontab # inv.cronAtStart /\ Registrations(crontab) = <<>>) => ~crontab.exists
        /\ remove_crontab(crontab) = crontab

\* C16: a run whose datasets are missing, malformed or empty (or that has no
\* swaks) ends with a non-zero exit, calls send_email not once and leaves
\* history.json as it found it.
C16_BadDatasetsAreFatal ==
    (InRun /\ inv.pool = 0) =>
        /\ pc = "done"
        /\ outcome \in {"exit1", "crash"}
        /\ trace = <<>> /\ i = 0 /\ successful_sends = 0
        /\ disk = inv.diskAtStart

C16_Witness ==
    /\ InRun /\ inv.pool = 0
    /\ outcome = "exit1"
    /\ disk.kind = "json" /\ ~BadRecord(disk)
    /\ inv.removed

\* the count the run asked for before the clamp of lines 328-331
Requested == IF ForceSend(args) THEN args.force_send ELSE inv.quota

\* C17: a run that reaches line 334 selects min(quota, len(receive_data))
\* positions of receive_data, no position twice.
C17_DistinctRecipients ==
    (InRun /\ pc = "loop") =>
        /\ Len(selected) = Min(Requested, inv.pool)
        /\ emails_to_send = Len(selected)
        /\ \A m \in 1..Len(selected) : selected[m] \in 1..inv.pool
        /\ \A m, n \in 1..Len(selected) : selected[m] = selected[n] => m = n

C17_Witness ==
    /\ InRun /\ pc = "loop" /\ i = emails_to_send
    /\ ~args.forced
    /\ inv.quota > inv.pool
    /\ Len(selected) >= 2

\* C18: when the loop of a run has ended, a pause lies between every two
\* send_email calls of the run and no pause follows the last call.
C18_PausesOnlyBetweenSends ==
    (InRun /\ pc = "update") =>
        /\ \A m \in 1..Len(trace) :
               (trace[m] = "send" /\ m < Len(trace)) => trace[m + 1] = "pause"
        /\ trace # <<>> => trace[Len(trace)] = "send"

====
